---- MODULE Spec2Model ----
(***************************************************************************)
(* Model of the air hockey game of src/main.py (class Hockey): the frame   *)
(* loop, the cooldown of Player 2's special move, the goal / win / serve   *)
(* logic and the power-up handler and expiry check.                        *)
(*                                                                         *)
(* Times are milliseconds of pygame.time.get_ticks(); x-positions are the  *)
(* pymunk x-coordinates; damping is held in tenths (0.8 -> 8).             *)
(***************************************************************************)
EXTENDS Integers, Sequences, FiniteSets, TLC

(***************************************************************************)
(* Program constants                                                       *)
(***************************************************************************)
cooldown_length == 200
hit_length == 20
screen_x == 1920
rink_x == screen_x - 300
LeftBoundary == 185
RightOffset == 115
RightBoundary == rink_x + RightOffset
WinScore == 7
GoalDelay == 1000
WinDelay == 2000
PowerupLifetime == 10000
InitFps == 100
InitDamping == 8

(***************************************************************************)
(* Bounds of the model                                                     *)
(***************************************************************************)
\* the clock stops advancing at MaxNow (round / goal specification)
MaxNow == 15500
\* the clock stops advancing at MaxNowCooldown (cooldown specification)
MaxNowCooldown == 6400
\* the clock stops advancing at MaxNowPowerup (power-up specification)
MaxNowPowerup == 12500
\* shapes (pucks and power-ups) created in the power-up specification
MaxShapes == 4
\* clock bound (ms) of the loop in which every goal is scored by player 2
MaxNowScores == 16500
\* clock bound (ms) of the loop with frames of uneven length
MaxNowLag == 6000
\* pucks the power-up harness lets touch one power-up
MaxPucks == 2

\* frame durations of the round / goal specification
FrameTimes == {500}
\* frame duration at the initial frame rate (1000 / fps ms)
CooldownFrameTimes == {1000 \div InitFps}
\* clock steps of the power-up specification
PowerupTimes == {2500}
\* x-positions a puck can be moved to by one physics step
Positions == {LeftBoundary - 1, LeftBoundary, RightBoundary, RightBoundary + 1}
\* the x-positions a puck can hold inside the rink in the cooldown specification
InsidePositions == {LeftBoundary, RightBoundary}
\* frame times (ms) of a loop that stalls now and then
LagFrameTimes == {500, 1000}
\* a puck position past the left goal line
LeftGoalPositions == {LeftBoundary - 1}

KindGravity == 1
KindSpeed == 2
KindFriction == 3
Kinds == {KindGravity, KindSpeed, KindFriction}

VARIABLES
    now,                  \* pygame.time.get_ticks()
    pc,                   \* position in run(): "step", "events", "goals", "tick", "done", "crashed"
    running,              \* self._running
    attrs,                \* attributes of self that are assigned only after __init__ and exist by now
    next_id,              \* identity of the next shape created
    space,                \* shapes in self._space (pucks and power-ups)
    pucks,                \* self._pucks: sequence of [id, x]
    powerups,             \* self._powerups: shape id -> kind
    gravity, speed, friction,      \* self._gravity, self._speed, self._friction
    last_powerup,         \* self._last_powerup
    last_powerup_created, \* self._last_powerup_created
    space_gravity,        \* y component of self._space.gravity
    space_damping,        \* self._space.damping, in tenths
    fps,                  \* self.fps
    time_to_next_hit,     \* self._time_to_next_hit
    time_to_cooldown,     \* self._time_to_cooldown
    cooldown,             \* self._cooldown
    paddle_2_seek,        \* paddle 2's velocity was set by the special move in the last _process_events
    key_q,                \* key[K_q] as sampled by the _process_events call of this frame
                          \* (line 277); FALSE at every other point of the frame
    idle_frames,          \* history: calls of _process_events without the special move since it
                          \* was last engaged (since __init__ before that), counted up to
                          \* cooldown_length + 1
    goal,                 \* self._goal
    goal_player,          \* self._goal_player
    countdown,            \* self._countdown
    score_1, score_2,     \* self._score_1, self._score_2
    win_1, win_2,         \* self._win_1, self._win_2 (exist once "win" is in attrs)
    create_puck_on_count, \* self._create_puck_on_count (exists once "count" is in attrs)
    last,                 \* self._last
    goal_text,            \* text rendered by self._big_text
    stale_read            \* history: the last call of _check_goals read the position of a puck
                          \* it had already removed from self._space (line 330 after line 328)

powerupVars == <<gravity, speed, friction, last_powerup, last_powerup_created,
                 space_gravity, space_damping, fps, powerups>>
cooldownVars == <<time_to_next_hit, time_to_cooldown, cooldown, paddle_2_seek, key_q,
                  idle_frames>>
roundVars == <<goal, goal_player, countdown, score_1, score_2, win_1, win_2,
               create_puck_on_count, last, goal_text, attrs, stale_read>>
worldVars == <<next_id, space, pucks>>
vars == <<now, pc, running, powerupVars, cooldownVars, roundVars, worldVars>>

(***************************************************************************)
(* Hockey.__init__                                                         *)
(***************************************************************************)
Init ==
    /\ now = 0
    /\ pc = "step"
    /\ running = TRUE
    /\ attrs = {}
    /\ next_id = 1
    /\ space = {}
    /\ pucks = <<>>
    /\ powerups = <<>>
    /\ gravity = FALSE /\ speed = FALSE /\ friction = FALSE
    /\ last_powerup = 0
    /\ last_powerup_created = 0
    /\ space_gravity = 0
    /\ space_damping = InitDamping
    /\ fps = InitFps
    /\ time_to_next_hit = cooldown_length
    /\ time_to_cooldown = hit_length
    /\ cooldown = FALSE
    /\ paddle_2_seek = FALSE
    /\ key_q = FALSE
    /\ idle_frames = 0
    /\ goal = FALSE
    /\ goal_player = 0
    /\ countdown = TRUE
    /\ score_1 = 0 /\ score_2 = 0
    /\ win_1 = FALSE /\ win_2 = FALSE
    /\ create_puck_on_count = FALSE
    /\ last = 0
    /\ goal_text = ""
    /\ stale_read = FALSE

(***************************************************************************)
(* Helpers of _process_events (the hit cooldown)                           *)
(***************************************************************************)
\* lines 288-289: a cooldown at or below zero is displayed and used as zero
ClampHit(t) == IF t <= 0 THEN 0 ELSE t

\* line 296: the special move engages
Engages(q, t, c, g) == q /\ t <= 0 /\ 0 <= c /\ g = FALSE

\* mutant of NextHitAfterIdle: the frame of the release does not count down
NextHitAfterIdleNoCount(wasEngaged, t) ==
    IF wasEngaged THEN cooldown_length ELSE t - 1

\* lines 311-315: the cooldown left when a frame without the special move ends
NextHitAfterIdle(wasEngaged, t) ==
    (IF wasEngaged THEN cooldown_length ELSE t) - 1

(***************************************************************************)
(* Helpers of _check_goals, _reset and _start                              *)
(***************************************************************************)
\* mutant of IsGoalX: a puck exactly on a goal line scores
IsGoalXInclusive(x) == x <= LeftBoundary \/ x >= RightBoundary

\* mutant of IsGoalX: the comparison with the left goal line is turned round
IsGoalXTurned(x) == x > LeftBoundary \/ x > RightBoundary

\* line 325: the puck is past a goal line
IsGoalX(x) == x < LeftBoundary \/ x > RightBoundary

\* mutant of ScoresForPlayer2: the goals are credited to the wrong players
ScoresForPlayer2Swapped(x) == x > RightBoundary

\* line 330: the goal is credited to Player 2
ScoresForPlayer2(x) == x < LeftBoundary

\* lines 342-350: the win flags <<win_1, win_2>> for the scores
WinFlags(s1, s2) ==
    IF s1 >= WinScore THEN <<TRUE, FALSE>>
    ELSE IF s2 >= WinScore THEN <<FALSE, TRUE>>
    ELSE <<FALSE, FALSE>>

\* mutant of ResetDue: the goal banner is taken down after half the delay
ResetDueEarly(g, elapsed) == g /\ elapsed >= GoalDelay \div 2

\* lines 352 and 365: the goal banner has been up long enough
ResetDue(g, elapsed) == g /\ elapsed >= GoalDelay

\* mutant of WinResetDue: the scores are reset as soon as the winner banner shows
WinResetDueEarly(elapsed) == elapsed >= GoalDelay

\* line 358: the winner banner has been up long enough
WinResetDue(elapsed) == elapsed >= WinDelay

\* lines 463-466: where _reset puts the new puck
ServeX(player) ==
    IF player = 2 THEN rink_x \div 4 + 150 ELSE (rink_x * 3) \div 4 + 150

\* lines 475-489: the branch _start takes
CountdownStage(elapsed) ==
    IF elapsed >= 4500 THEN "end"
    ELSE IF elapsed >= 4000 THEN "go"
    ELSE IF elapsed >= 3500 THEN "1"
    ELSE IF elapsed >= 3000 THEN "2"
    ELSE IF elapsed >= 2500 THEN "3"
    ELSE "wait"

\* lines 477-489: the banner _start leaves
CountdownText(stage, text) ==
    CASE stage = "end" -> ""
      [] stage = "go" -> "GO!"
      [] stage = "1" -> "1"
      [] stage = "2" -> "2"
      [] stage = "3" -> "3"
      [] OTHER -> text

\* line 384: the shape _create_puck appends to self._pucks
NewPuck(id, x) == [id |-> id, x |-> x]

PuckIds(ps) == {ps[i].id : i \in 1..Len(ps)}

(***************************************************************************)
(* run(): one frame is Step, ProcessEvents, CheckGoals, Tick               *)
(***************************************************************************)
\* lines 167-170: the loop test and the physics step; P is the set of
\* x-positions the step can move a puck to
Step(P) ==
    /\ pc = "step"
    /\ running
    /\ \E f \in [1..Len(pucks) -> P \cup {0}] :
         pucks' = [i \in 1..Len(pucks) |->
                     IF f[i] = 0 THEN pucks[i] ELSE [pucks[i] EXCEPT !.x = f[i]]]
    /\ pc' = "events"
    /\ UNCHANGED <<now, running, powerupVars, cooldownVars, roundVars, next_id, space>>

\* line 167: the loop ends once self._running is false
Exit ==
    /\ pc = "step"
    /\ ~running
    /\ pc' = "done"
    /\ UNCHANGED <<now, running, powerupVars, cooldownVars, roundVars, worldVars>>

\* lines 232-316: q is the Q key, quit a QUIT / Escape event
ProcessEvents(q, quit) ==
    /\ pc = "events"
    /\ running' = (running /\ ~quit)
    /\ key_q' = q
    /\ LET t == ClampHit(time_to_next_hit) IN
       IF Engages(q, t, time_to_cooldown, goal)
       THEN /\ time_to_cooldown' = time_to_cooldown - 1
            /\ time_to_next_hit' = t
            /\ IF Len(pucks) = 0
               THEN \* line 298: IndexError on self._pucks[0]
                    /\ pc' = "crashed"
                    /\ UNCHANGED <<cooldown, paddle_2_seek, idle_frames>>
               ELSE /\ pc' = "goals"
                    /\ cooldown' = TRUE
                    /\ paddle_2_seek' = TRUE
                    /\ UNCHANGED idle_frames
       ELSE /\ time_to_next_hit' = NextHitAfterIdle(cooldown, t)
            /\ cooldown' = FALSE
            /\ paddle_2_seek' = FALSE
            /\ time_to_cooldown' = hit_length
            /\ idle_frames' = (IF cooldown THEN 1
                               ELSE IF idle_frames > cooldown_length THEN idle_frames
                               ELSE idle_frames + 1)
            /\ pc' = "goals"
    /\ UNCHANGED <<now, powerupVars, roundVars, worldVars>>

\* lines 318-368, with _reset (456-467), _start (469-489) and _create_puck (370-384)
CheckGoals ==
    /\ pc = "goals"
    /\ LET scored == SelectSeq(pucks, LAMBDA p : IsGoalX(p.x))
           kept == SelectSeq(pucks, LAMBDA p : ~IsGoalX(p.x))
           n2 == Len(SelectSeq(scored, LAMBDA p : ScoresForPlayer2(p.x)))
           n1 == Len(scored) - n2
           any == Len(scored) > 0
           \* after the loop of lines 327-339
           s1a == score_1 + n1
           s2a == score_2 + n2
           gpa == IF any
                  THEN (IF ScoresForPlayer2(scored[Len(scored)].x) THEN 2 ELSE 1)
                  ELSE goal_player
           goala == any \/ goal
           lasta == IF any THEN now ELSE last
           texta == IF any THEN "Goal!" ELSE goal_text
           \* lines 341-366
           w == WinFlags(s1a, s2a)
           won == w[1] \/ w[2]
           due == ResetDue(goala, now - lasta)
           textb == IF won /\ due
                    THEN (IF w[1] THEN "Player 1 Wins!" ELSE "Player 2 Wins!")
                    ELSE texta
           doReset == IF won THEN due /\ WinResetDue(now - lasta) ELSE due
           gpb == IF won /\ doReset THEN 2 ELSE gpa
           \* _reset
           goalc == IF doReset THEN FALSE ELSE goala
           textc == IF doReset THEN "" ELSE textb
           pucksc == IF doReset THEN Append(kept, NewPuck(next_id, ServeX(gpb))) ELSE kept
           idc == IF doReset THEN next_id + 1 ELSE next_id
           spacec == (space \ PuckIds(scored)) \cup (IF doReset THEN {next_id} ELSE {})
           \* lines 367-368 and _start
           stage == IF countdown THEN CountdownStage(now - lasta) ELSE "off"
           \* line 480: AttributeError when the "1" branch never ran
           crash == stage = "go" /\ "count" \notin attrs
           spawn == stage = "go" /\ ~crash /\ create_puck_on_count
       IN  /\ score_1' = (IF won /\ doReset THEN 0 ELSE s1a)
           /\ score_2' = (IF won /\ doReset THEN 0 ELSE s2a)
           /\ goal_player' = gpb
           /\ goal' = goalc
           /\ last' = lasta
           /\ win_1' = w[1]
           /\ win_2' = w[2]
           /\ goal_text' = CountdownText(stage, textc)
           /\ countdown' = (countdown /\ stage # "end")
           /\ create_puck_on_count' =
                (IF stage = "1" THEN TRUE
                 ELSE IF spawn THEN FALSE ELSE create_puck_on_count)
           /\ attrs' = attrs \cup {"win"} \cup (IF stage = "1" THEN {"count"} ELSE {})
           /\ pucks' = (IF spawn THEN Append(pucksc, NewPuck(idc, ServeX(2))) ELSE pucksc)
           /\ space' = spacec \cup (IF spawn THEN {idc} ELSE {})
           /\ next_id' = (IF spawn THEN idc + 1 ELSE idc)
           /\ stale_read' = any
           /\ pc' = (IF crash THEN "crashed" ELSE "tick")
    /\ key_q' = FALSE
    /\ UNCHANGED <<now, running, powerupVars, time_to_next_hit, time_to_cooldown, cooldown,
                   paddle_2_seek, idle_frames>>

\* lines 174-179: render and self._clock.tick(self.fps); the frame took dt ms
Tick(D, max) ==
    /\ pc = "tick"
    /\ \E dt \in D :
         /\ now + dt <= max
         /\ now' = now + dt
    /\ pc' = "step"
    /\ UNCHANGED <<running, powerupVars, cooldownVars, roundVars, worldVars>>

Next ==
    \/ Step(Positions)
    \/ Exit
    \/ \E q \in BOOLEAN, quit \in BOOLEAN : ProcessEvents(q, quit)
    \/ CheckGoals
    \/ Tick(FrameTimes, MaxNow)

Spec == Init /\ [][Next]_vars

(***************************************************************************)
(* The same loop at the frame rate of __init__ (fps = 100, 10 ms frames),  *)
(* long enough for the hit cooldown to run out and be used.                *)
(***************************************************************************)
NextCooldown ==
    \/ Step(InsidePositions)
    \/ Exit
    \/ \E q \in BOOLEAN, quit \in BOOLEAN : ProcessEvents(q, quit)
    \/ CheckGoals
    \/ Tick(CooldownFrameTimes, MaxNowCooldown)

SpecCooldown == Init /\ [][NextCooldown]_vars

(***************************************************************************)
(* The same loop with pucks that stay where they are or cross the left     *)
(* goal line, long enough for player 2 to score more than seven times.     *)
(***************************************************************************)
NextScores ==
    \/ Step(LeftGoalPositions)
    \/ Exit
    \/ \E q \in BOOLEAN, quit \in BOOLEAN : ProcessEvents(q, quit)
    \/ CheckGoals
    \/ Tick(FrameTimes, MaxNowScores)

SpecScores == Init /\ [][NextScores]_vars

(***************************************************************************)
(* The same loop with frames of 500 ms and 1000 ms, so that a frame can    *)
(* step over a stage of the serve countdown.                               *)
(***************************************************************************)
NextLag ==
    \/ Step(Positions)
    \/ Exit
    \/ \E q \in BOOLEAN, quit \in BOOLEAN : ProcessEvents(q, quit)
    \/ CheckGoals
    \/ Tick(LagFrameTimes, MaxNowLag)

SpecLag == Init /\ [][NextLag]_vars

(***************************************************************************)
(* The power-up code: _create_powerup, the collision handler powerup and   *)
(* _check_powerups.  run() calls none of them (the calls at lines 251-252  *)
(* are commented out), so they are exercised by a specification of their   *)
(* own that applies them in any order while the clock advances.            *)
(***************************************************************************)
\* lines 139, 146, 153: the effect is kept by _check_powerups
EffectLive(flag, elapsed) == flag /\ elapsed <= PowerupLifetime

\* lines 370-384, called as _start does at the GO! mark
CreatePuck ==
    /\ pc = "step"
    /\ Len(pucks) < MaxPucks
    /\ next_id <= MaxShapes
    /\ pucks' = Append(pucks, NewPuck(next_id, ServeX(2)))
    /\ space' = space \cup {next_id}
    /\ next_id' = next_id + 1
    /\ UNCHANGED <<now, pc, running, powerupVars, cooldownVars, roundVars>>

\* lines 386-399
CreatePowerup(type) ==
    /\ pc = "step"
    /\ next_id <= MaxShapes
    /\ last_powerup_created' = now
    /\ space' = space \cup {next_id}
    /\ powerups' = [s \in DOMAIN powerups \cup {next_id} |->
                      IF s = next_id THEN type ELSE powerups[s]]
    /\ next_id' = next_id + 1
    /\ UNCHANGED <<now, pc, running, gravity, speed, friction, last_powerup,
                   space_gravity, space_damping, fps, cooldownVars, roundVars, pucks>>

\* a flag that is assigned the test of the kind instead of being set on a match
FlagAfterHitAssigned(flag, hit, kind) == hit = kind

\* lines 126-131: the if / elif chain sets the flag of the kind that was hit
FlagAfterHit(flag, hit, kind) == flag \/ hit = kind

\* lines 125-136: the collision-begin handler, shape arbiter.shapes[0], the
\* power-up of a (power-up, puck) pair. The engine calls it once per pair, so a
\* power-up touched by two pucks in one step is handed over a second time
\* after the first call has deleted its entry: line 126 then raises KeyError
\* before anything is assigned, inside the engine's callback.
Powerup(shape) ==
    /\ pc = "step"
    /\ Len(pucks) > 0
    /\ IF shape \in DOMAIN powerups
       THEN /\ shape \in space
            /\ gravity' = FlagAfterHit(gravity, powerups[shape], KindGravity)
            /\ speed' = FlagAfterHit(speed, powerups[shape], KindSpeed)
            /\ friction' = FlagAfterHit(friction, powerups[shape], KindFriction)
            /\ last_powerup' = now
            /\ space' = space \ {shape}
            /\ powerups' = [s \in DOMAIN powerups \ {shape} |-> powerups[s]]
            /\ UNCHANGED pc
       ELSE /\ Len(pucks) > 1
            /\ \E raised \in {"step", "crashed"} : pc' = raised
            /\ UNCHANGED <<gravity, speed, friction, last_powerup, space, powerups>>
    /\ UNCHANGED <<now, running, last_powerup_created, space_gravity, space_damping,
                   fps, cooldownVars, roundVars, next_id, pucks>>

\* lines 138-159
CheckPowerups ==
    /\ pc = "step"
    /\ LET elapsed == now - last_powerup
           g == EffectLive(gravity, elapsed)
           sp == EffectLive(speed, elapsed)
           fr == EffectLive(friction, elapsed)
       IN  /\ space_gravity' = (IF g THEN -400 ELSE 0)
           /\ gravity' = g
           /\ fps' = (IF sp THEN 120 ELSE 60)
           /\ space_damping' = (IF fr THEN 2 ELSE 7)
           \* line 159 writes self._speed, not self._friction
           /\ speed' = (IF fr THEN sp ELSE FALSE)
           /\ UNCHANGED friction
    /\ UNCHANGED <<now, pc, running, last_powerup, last_powerup_created, powerups,
                   cooldownVars, roundVars, worldVars>>

\* the clock between two calls
Elapse(D, max) ==
    /\ pc = "step"
    /\ \E dt \in D :
         /\ now + dt <= max
         /\ now' = now + dt
    /\ UNCHANGED <<pc, running, powerupVars, cooldownVars, roundVars, worldVars>>

NextPowerup ==
    \/ CreatePuck
    \/ \E type \in Kinds : CreatePowerup(type)
    \/ \E shape \in (1..(next_id - 1)) \ PuckIds(pucks) : Powerup(shape)
    \/ CheckPowerups
    \/ Elapse(PowerupTimes, MaxNowPowerup)

SpecPowerup == Init /\ [][NextPowerup]_vars

(***************************************************************************)
(* Properties.  They are stated on the variables and the program           *)
(* constants only, never through the operators that model the code.        *)
(***************************************************************************)
\* a step that is one call of _check_goals
GoalsStep == pc = "goals" /\ pc' # "goals"

\* a step that is one call of _process_events
EventsStep == pc = "events" /\ pc' # "events"

\* the indices of the pucks past, or at or past, a boundary
PucksLeft == {i \in 1..Len(pucks) : pucks[i].x < LeftBoundary}
PucksRight == {i \in 1..Len(pucks) : pucks[i].x > RightBoundary}
PucksAtOrLeft == {i \in 1..Len(pucks) : pucks[i].x <= LeftBoundary}
PucksAtOrRight == {i \in 1..Len(pucks) : pucks[i].x >= RightBoundary}
PucksOnBoundary == {i \in 1..Len(pucks) : pucks[i].x \in {LeftBoundary, RightBoundary}}

\* the puck of index i is gone from the list and from the world after the step
RemovedAfter(i) ==
    /\ \A j \in 1..Len(pucks') : pucks'[j].id # pucks[i].id
    /\ pucks[i].id \notin space'

\* the puck of index i is still in the list and in the world after the step
KeptAfter(i) ==
    /\ \E j \in 1..Len(pucks') : pucks'[j] = pucks[i]
    /\ pucks[i].id \in space'

\* C1 as stated: in every call of _check_goals each puck with x <= 185 or
\* x >= rink_x + 115 (a puck exactly on a boundary included) is removed and
\* adds exactly 1 to the opposing player's score.
C1_GoalAtOrBeyondBoundary ==
    [][ GoalsStep /\ (PucksAtOrLeft \cup PucksAtOrRight) # {} =>
          /\ score_2' = score_2 + Cardinality(PucksAtOrLeft)
          /\ score_1' = score_1 + Cardinality(PucksAtOrRight)
          /\ \A i \in (PucksAtOrLeft \cup PucksAtOrRight) : RemovedAfter(i) ]_vars

\* C1 amended: in every call of _check_goals each puck with x < 185 or
\* x > rink_x + 115 is removed and adds exactly 1 to the opposing player's
\* score (one goal per puck), and a puck exactly on a boundary (x = 185 or
\* x = rink_x + 115) scores no goal and stays in play.
C1_GoalBeyondBoundary ==
    [][ GoalsStep =>
          /\ (PucksLeft \cup PucksRight) # {} =>
               /\ score_2' = score_2 + Cardinality(PucksLeft)
               /\ score_1' = score_1 + Cardinality(PucksRight)
               /\ \A i \in (PucksLeft \cup PucksRight) : RemovedAfter(i)
          /\ \A i \in PucksOnBoundary : KeptAfter(i) ]_vars

\* C1 witness: _check_goals has just removed the only puck, which was past
\* the left boundary, and credited Player 2 with the first goal of the match.
C1_Witness ==
    /\ pc = "tick" /\ goal /\ last = now /\ now > 0
    /\ score_2 = 1 /\ score_1 = 0 /\ Len(pucks) = 0

C3_GoalEffect ==
    [][ GoalsStep =>
          /\ PucksLeft # {} /\ PucksRight = {} =>
               /\ \A i \in PucksLeft : RemovedAfter(i)
               /\ score_2' = score_2 + Cardinality(PucksLeft)
               /\ score_1' = score_1
               /\ goal_player' = 2 /\ goal' /\ last' = now /\ goal_text' = "Goal!"
          /\ PucksRight # {} /\ PucksLeft = {} =>
               /\ \A i \in PucksRight : RemovedAfter(i)
               /\ score_1' = score_1 + Cardinality(PucksRight)
               /\ score_2' = score_2
               /\ goal_player' = 1 /\ goal' /\ last' = now /\ goal_text' = "Goal!" ]_vars

\* C3 witness: Player 1 has just scored after Player 2 had: the banner is up
\* and the timestamp is this frame's.
C3_Witness ==
    /\ pc = "tick" /\ goal /\ goal_player = 1 /\ goal_text = "Goal!" /\ last = now
    /\ score_1 = 1 /\ score_2 = 1

\* C4: when a score is at 7 or more exactly one win flag is set, that of a
\* player who has 7, and the two flags are never both true; a winner banner
\* is on display only when >= 1000 ms have passed since the goal; and the
\* scores go back to (0,0) only in a call with >= 2000 ms since the goal.
C4_WinCondition ==
    /\ [](/\ ~(win_1 /\ win_2)
          /\ (score_1 >= WinScore \/ score_2 >= WinScore) =>
               /\ win_1 # win_2
               /\ win_1 => score_1 >= WinScore
               /\ win_2 => score_2 >= WinScore
          /\ goal_text \in {"Player 1 Wins!", "Player 2 Wins!"} =>
               /\ now - last >= GoalDelay
               /\ win_1 \/ win_2)
    /\ [][ (score_1' < score_1 \/ score_2' < score_2) =>
             /\ score_1' = 0 /\ score_2' = 0
             /\ score_1 >= WinScore \/ score_2 >= WinScore
             /\ last' = last /\ now - last >= WinDelay ]_vars

\* C4 witness: Player 1 won 7-0 and _check_goals has just reset the scores;
\* the win flag of the finished match is still set.
C4_Witness ==
    /\ pc = "tick" /\ win_1 /\ ~win_2 /\ score_1 = 0 /\ score_2 = 0
    /\ ~goal /\ now - last >= WinDelay

\* C5 as stated: at most one puck is in play in every reachable state.
C5_AtMostOnePuck == Len(pucks) <= 1

\* C6 as stated: the call of _check_goals that ends a goal (respawn, or
\* score reset after a win) leaves countdown_active true.
C6_ServingAfterGoal ==
    [][ GoalsStep /\ goal /\ ~goal' => countdown' ]_vars

\* C6 amended: the call of _check_goals that ends a goal comes >= 1000 ms
\* after it (>= 2000 ms and with the scores reset to 0 after a match-winning
\* goal) and puts a new puck in play, and play resumes at once:
\* countdown_active never goes from false to true, so no countdown follows
\* a goal scored after the first serve's countdown has ended.
C6_PlayResumesWithoutServing ==
    [][ /\ countdown' => countdown
        /\ GoalsStep /\ goal /\ ~goal' =>
             /\ now - last >= GoalDelay
             /\ Len(pucks') = Len(pucks) + 1
             /\ pucks'[Len(pucks')].id \in space' \ space
             /\ (score_1 >= WinScore \/ score_2 >= WinScore) =>
                  /\ now - last >= WinDelay
                  /\ score_1' = 0 /\ score_2' = 0 ]_vars

\* C6 witness: a goal scored in play has just been ended by the respawn,
\* 1000 ms after it, and no countdown is active.
C6_Witness ==
    /\ pc = "tick" /\ ~goal /\ ~countdown /\ now - last = GoalDelay
    /\ score_1 + score_2 > 0 /\ Len(pucks) = 1 /\ goal_text = ""

\* C7 as stated: time_to_next_hit is never negative.
C7_NeverNegative == time_to_next_hit >= 0

\* C8 as stated: when the frame of the release ends time_to_next_hit is 200
\* and time_to_cooldown is 20.
C8_ReleaseLeavesFullCooldown ==
    [][ EventsStep /\ cooldown /\ ~cooldown' =>
          /\ time_to_next_hit' = cooldown_length
          /\ time_to_cooldown' = hit_length ]_vars

\* C8 amended: in the first frame without the special move after a frame
\* with it, time_to_next_hit is set to 200 and counted down in the same
\* frame, so it is 199 when that frame ends, and time_to_cooldown is 20;
\* every later frame without the special move takes exactly 1 off while it
\* is positive, so it is 200 - n after the n-th such frame (the frame of the
\* release being the first) and reaches 0 after 199 further frames.
C8_ReleaseRestartsCooldown ==
    /\ [][ EventsStep /\ cooldown /\ ~cooldown' =>
             /\ time_to_next_hit' = cooldown_length - 1
             /\ time_to_cooldown' = hit_length
             /\ idle_frames' = 1 ]_vars
    /\ [][ EventsStep /\ ~cooldown /\ ~cooldown' /\ pc' = "goals" /\ time_to_next_hit > 0 =>
             /\ time_to_next_hit' = time_to_next_hit - 1
             /\ idle_frames' = idle_frames + 1 ]_vars
    /\ [](~cooldown /\ idle_frames \in 1..cooldown_length =>
             time_to_next_hit = cooldown_length - idle_frames)

\* C8 witness: the special move was used and released (no puck exists to aim
\* at before 4000 ms) and 200 frames without it have gone by since: the
\* cooldown has just reached 0.
C8_Witness ==
    /\ pc = "goals" /\ now > 4000 /\ ~cooldown
    /\ idle_frames = cooldown_length /\ time_to_next_hit = 0

\* a step that is one call of _check_powerups (power-up specification)
PowerupsCheckStep == now' = now /\ powerups' = powerups /\ next_id' = next_id

\* the effect flag of a kind
Flag(kind) ==
    CASE kind = KindGravity -> gravity
      [] kind = KindSpeed -> speed
      [] kind = KindFriction -> friction

\* C9 as stated: in every call of _check_powerups each effect whose flag is
\* set keeps its flag and has its world parameter applied while
\* now - activated_at <= 10000, and loses its flag and has the parameter
\* reverted once now - activated_at > 10000.
C9_ExpiryAtLifetime ==
    [][ PowerupsCheckStep =>
          LET live == now - last_powerup <= PowerupLifetime IN
          /\ gravity => /\ gravity' = live
                        /\ space_gravity' = (IF live THEN -400 ELSE 0)
          /\ speed => /\ speed' = live
                      /\ fps' = (IF live THEN 120 ELSE 60)
          /\ friction => /\ friction' = live
                         /\ space_damping' = (IF live THEN 2 ELSE 7) ]_vars

\* C10 as stated: consuming a power-up of one kind changes neither the flag
\* nor the activation timestamp (the time _check_powerups measures the
\* lifetime from) of another kind that is active.
C10_EffectsIndependent ==
    [][ \A shape \in DOMAIN powerups \ DOMAIN powerups' :
          \A kind \in Kinds \ {powerups[shape]} :
              /\ Flag(kind)' = Flag(kind)
              /\ Flag(kind) => last_powerup' = last_powerup ]_vars

\* C11 as stated: consuming a power-up of a kind whose effect is active (its
\* flag set and its lifetime not over) does not move the expiry of that
\* effect, activation time + 10000 ms, to a later time.
C11_ReapplyKeepsExpiry ==
    [][ \A shape \in DOMAIN powerups \ DOMAIN powerups' :
          (Flag(powerups[shape]) /\ now - last_powerup <= PowerupLifetime)
              => last_powerup' + PowerupLifetime <= last_powerup + PowerupLifetime ]_vars

C12_CooperativeQuit ==
    [][ /\ (running /\ ~running') => EventsStep
        /\ (EventsStep /\ ~running') => pc' = "goals"
        /\ (GoalsStep /\ ~running) => pc' = "tick"
        /\ (pc = "tick" /\ pc' # "tick") => pc' = "step"
        /\ (pc = "step" /\ pc' = "events") => running
        /\ (pc = "step" /\ pc' # "step" /\ ~running) => pc' = "done"
        /\ (pc # "done" /\ pc' = "done") => (pc = "step" /\ ~running)
        /\ ~running => ~running' ]_vars

\* C13 as stated: in a frame the special move engages (paddle 2 driven
\* toward the puck, time_to_cooldown decremented, the cooling-down flag set)
\* if the trigger is held, time_to_next_hit (floored at 0) is 0,
\* time_to_cooldown >= 0 and no goal is in progress; in every other frame
\* paddle 2 gets the velocity of the direction keys and the move is not
\* engaged.
C13_SpecialMoveGuard ==
    [][ EventsStep =>
          LET floored == IF time_to_next_hit <= 0 THEN 0 ELSE time_to_next_hit
              guard == key_q' /\ floored = 0 /\ time_to_cooldown >= 0 /\ ~goal
          IN  /\ guard => /\ paddle_2_seek'
                          /\ cooldown'
                          /\ time_to_cooldown' = time_to_cooldown - 1
              /\ ~guard => (~paddle_2_seek' /\ ~cooldown') ]_vars

\* C14 as stated: time_to_cooldown lies in 0..hit_length in every reachable
\* state.
C14_HoldCounterInRange == time_to_cooldown \in 0..hit_length

\* C19 as stated: whenever the trigger is held with time_to_next_hit at 0,
\* time_to_cooldown >= 0 and no goal in progress, the puck list is not empty
\* and the read of the first puck's position does not fail.
C19_PuckExistsWhenEngaging ==
    [][ (EventsStep /\ key_q' /\ time_to_next_hit <= 0 /\ time_to_cooldown >= 0 /\ ~goal)
          => (Len(pucks) > 0 /\ pc' # "crashed") ]_vars

\* C16 as stated: in every frame, once the physics step and the handlers
\* have run and the frame is about to be rendered, world gravity, world
\* damping and the target frame rate are the values the power-up state
\* machine derives from the active-effect flags.
C16_PowerupsCheckedEveryFrame ==
    pc = "tick" =>
        /\ space_gravity = (IF gravity THEN -400 ELSE 0)
        /\ space_damping = (IF friction THEN 2 ELSE 7)
        /\ fps = (IF speed THEN 120 ELSE 60)

\* C18 as stated: every puck of the puck list and every key of the power-up
\* lookup is a shape of the physics world, and the goal check has not read a
\* puck after removing it from the world.
C18_HandlesValid ==
    /\ PuckIds(pucks) \subseteq space
    /\ DOMAIN powerups \subseteq space
    /\ ~stale_read

\* C20 as stated: both scores lie in 0..7, a score changes only by one per
\* goal or by the reset to 0 after a win, and no goal is credited to a
\* player whose score is already 7.
C20_ScoreBounds ==
    [][ /\ score_1' \in 0..WinScore
        /\ score_2' \in 0..WinScore
        /\ score_1' # score_1 =>
              /\ GoalsStep
              /\ score_1' \in {0, score_1 + Cardinality(PucksRight)}
              /\ score_1 < WinScore \/ score_1' = 0
        /\ score_2' # score_2 =>
              /\ GoalsStep
              /\ score_2' \in {0, score_2 + Cardinality(PucksLeft)}
              /\ score_2 < WinScore \/ score_2' = 0 ]_vars

\* C17 as stated: in a call of the goal check during the serve countdown,
\* with no goal scored or in progress and t = now - last, the banner is "3",
\* "2", "1", "GO!" for t in [2500,3000), [3000,3500), [3500,4000),
\* [4000,4500); at the "GO!" mark one puck is spawned if none exists and none
\* if one exists, and no puck is spawned at any other mark; the countdown
\* stays active below 4500 and at t >= 4500 the banner is cleared, the
\* countdown is over and a puck is in play.
C17_ServingCountdown ==
    [][ (GoalsStep /\ countdown /\ ~goal /\ PucksLeft \cup PucksRight = {}) =>
          LET t == now - last IN
          /\ (2500 <= t /\ t < 3000) => goal_text' = "3"
          /\ (3000 <= t /\ t < 3500) => goal_text' = "2"
          /\ (3500 <= t /\ t < 4000) => goal_text' = "1"
          /\ (4000 <= t /\ t < 4500) =>
                /\ goal_text' = "GO!"
                /\ Len(pucks') = (IF Len(pucks) = 0 THEN 1 ELSE Len(pucks))
          /\ ~(4000 <= t /\ t < 4500) => Len(pucks') = Len(pucks)
          /\ t < 4500 => countdown'
          /\ t >= 4500 => (goal_text' = "" /\ ~countdown' /\ Len(pucks') > 0) ]_vars

\* the loop is executing frames
FramesRun == pc \notin {"crashed", "done"}

\* no puck is in play and nothing is pending that would serve one: _reset runs
\* only while a goal is in progress (lines 351, 365), _start only while the
\* countdown is active (line 367)
NoServePending == Len(pucks) = 0 /\ ~goal /\ ~countdown

\* once nothing is pending without a puck, every later frame leaves it so
NoServePendingStays == [][ NoServePending => NoServePending' ]_vars

\* C21 as stated: the game never stays forever in a state with no puck:
\* whenever frames are executed and no puck is in play, a serve that puts a
\* puck back is pending, the reset after a goal or the serve countdown.
C21_PlayResumes == (FramesRun /\ Len(pucks) = 0) => (goal \/ countdown)

====
